---- MODULE Spec2Model ----
(***************************************************************************)
(* Model of pipeline.py: the command-line text enrichment pipeline.        *)
(*                                                                         *)
(* A Python string is the sequence of its Unicode code points, so that     *)
(* strip, join and strftime are computed character by character, whatever  *)
(* the character (32 is a space, 10 a newline, 97 the letter a).  The NLP  *)
(* libraries (sumy, spaCy, VADER) are outside the repository: what each    *)
(* returns for the run's text is part of the environment, fixed per run.   *)
(* Scores are integers in units of 1/10000 (VADER rounds the compound      *)
(* score to four decimals, and 0.05 is 500 of these units).                *)
(***************************************************************************)
EXTENDS Integers, Sequences, FiniteSets, TLC

\* ------------------------------------------------------------------ bounds

\* Longest standard input, in lines, that Init enumerates.
MaxLines == 3

\* ----------------------------------------------------------- program constants

\* --sentences default (line 77) and summarize_text's default (line 24).
DefaultSentences == 3
\* 0.05 and -0.05 of line 38, in units of 1/10000.
PosThreshold == 500
NegThreshold == -500

\* ------------------------------------------------------------------ strings

\* Only the ASCII blanks, as in strip(" \t\r\n").
WhitespaceAsciiOnly == {9, 10, 13, 32}

\* The characters str.strip() removes: those for which str.isspace() holds.
Whitespace ==
    {9, 10, 11, 12, 13, 28, 29, 30, 31, 32, 133, 160, 5760, 8192, 8193, 8194, 8195,
     8196, 8197, 8198, 8199, 8200, 8201, 8202, 8232, 8233, 8239, 8287, 12288}

RECURSIVE lstrip(_)
lstrip(s) ==
    IF s = <<>> THEN <<>>
    ELSE IF Head(s) \in Whitespace THEN lstrip(Tail(s)) ELSE s

RECURSIVE rstrip(_)
rstrip(s) ==
    IF s = <<>> THEN <<>>
    ELSE IF s[Len(s)] \in Whitespace THEN rstrip(SubSeq(s, 1, Len(s) - 1)) ELSE s

\* str.strip() with no argument.
strip(s) == rstrip(lstrip(s))

\* sep.join(parts)
RECURSIVE join(_, _)
join(sep, parts) ==
    IF parts = <<>> THEN <<>>
    ELSE IF Len(parts) = 1 THEN parts[1]
    ELSE parts[1] \o sep \o join(sep, Tail(parts))

\* "0" .. "9"
Digits == <<48, 49, 50, 51, 52, 53, 54, 55, 56, 57>>

\* The decimal digits of n, zero-padded to width w (strftime's %m, %d, %H, ...;
\* %Y for a four-digit year).
RECURSIVE Pad(_, _)
Pad(n, w) ==
    IF w = 0 THEN <<>> ELSE Pad(n \div 10, w - 1) \o <<Digits[(n % 10) + 1]>>

\* datetime.strftime("%Y%m%d_%H%M%S")
strftime(dt) ==
    Pad(dt.year, 4) \o Pad(dt.month, 2) \o Pad(dt.day, 2) \o <<95>>
        \o Pad(dt.hour, 2) \o Pad(dt.minute, 2) \o Pad(dt.second, 2)

\* "results_", ".json", "report_", ".html"
ResultsPrefix == <<114, 101, 115, 117, 108, 116, 115, 95>>
JsonSuffix == <<46, 106, 115, 111, 110>>
ReportPrefix == <<114, 101, 112, 111, 114, 116, 95>>
HtmlSuffix == <<46, 104, 116, 109, 108>>

\* "(No clear summary generated.)"
Placeholder ==
    <<40, 78, 111, 32, 99, 108, 101, 97, 114, 32, 115, 117, 109, 109, 97,
      114, 121, 32, 103, 101, 110, 101, 114, 97, 116, 101, 100, 46, 41>>

\* All sequences over S of length at most n.
SeqsUpTo(S, n) == UNION {[1..k -> S] : k \in 0..n}

\* ------------------------------------------------------------- input domains

\* Lines input() can return (no newline inside a line): the empty line, a
\* line of a tab, a form feed and a no-break space, and " a" followed by a
\* next-line character (U+0085).
LinePool == {<<>>, <<9, 12, 160>>, <<32, 97, 133>>}
StdinContents == SeqsUpTo(LinePool, MaxLines)

\* Contents of the file --input names: empty, and "a b" between a form feed
\* and newline before and a newline and an em space (U+2003) after.
FileContents == {<<>>, <<12, 10, 97, 32, 98, 10, 8195>>}

\* "in" and "foo.json"
InputPath == <<105, 110>>
OutputName == <<102, 111, 111, 46, 106, 115, 111, 110>>

\* What datetime.now() can return.
Clock ==
    {[year |-> 2024, month |-> 1, day |-> 5, hour |-> 3, minute |-> 7, second |-> 9],
     [year |-> 2026, month |-> 10, day |-> 30, hour |-> 23, minute |-> 59, second |-> 40]}

\* Sentences the summarizer can select: sumy strips each sentence and drops
\* empty ones, so a sentence has a non-whitespace character.
\* "A." and "b c."
SentenceA == [text |-> <<65, 46>>]
SentenceB == [text |-> <<98, 32, 99, 46>>]
\* The tuples summarizer(document, n) returns (at most n sentences).
SummarizerOutputs ==
    {<<>>, <<SentenceA>>, <<SentenceB, SentenceA>>, <<SentenceA, SentenceB, SentenceA>>}

\* Entity spans of doc.ents: surface text ("A", "b") and label_.
SpanA == [text |-> <<65>>, label_ |-> "ORG"]
SpanB == [text |-> <<98>>, label_ |-> "PERSON"]
\* What doc.ents can be: out of alphabetical order, and with a repeated entity.
EntsOutputs == {<<>>, <<SpanB>>, <<SpanB, SpanA>>, <<SpanA, SpanB, SpanA>>}

\* polarity_scores: neg, neu, pos in units of 1/1000, compound in 1/10000.
ScoreOutputs ==
    {[neg |-> 0, neu |-> 1000, pos |-> 0, compound |-> 0],
     [neg |-> 0, neu |-> 900, pos |-> 100, compound |-> 499],
     [neg |-> 0, neu |-> 900, pos |-> 100, compound |-> 500],
     [neg |-> 0, neu |-> 400, pos |-> 600, compound |-> 5000],
     [neg |-> 100, neu |-> 900, pos |-> 0, compound |-> -499],
     [neg |-> 100, neu |-> 900, pos |-> 0, compound |-> -500],
     [neg |-> 600, neu |-> 400, pos |-> 0, compound |-> -5000]}

\* Init enumerates two families of runs: every input with one fixed set of
\* library responses, and every combination of library responses on two inputs
\* (one file, one standard input).
PlainResponses ==
    <<<<SentenceA>>, <<SpanB>>, [neg |-> 0, neu |-> 1000, pos |-> 0, compound |-> 0]>>
FewInputs ==
    {<<<<12, 10, 97, 32, 98, 10, 8195>>, <<>>>>,
     <<<<>>, <<<<32, 97, 133>>, <<9, 12, 160>>>>>>}

\* ------------------------------------------------------------------ state

VARIABLES
    argv,        \* the command line: which options are present, and their values
    fileText,    \* content of the file --input names
    stdin,       \* the lines standard input will supply
    clock,       \* what datetime.now() returns at line 94
    sumyOut,     \* what the summarizer returns for this run's text
    nerOut,      \* doc.ents for this run's text
    vaderOut,    \* analyzer.polarity_scores for this run's text
    pc,          \* position in main
    lines,       \* main's lines list
    stdinPos,    \* lines consumed from standard input
    text,        \* main's text
    timestamp, json_name, html_name,
    loadLog,     \* outcome of each spacy.load call, in order
    downloadLog, \* outcome of each spacy.cli.download call, in order
    done,        \* enrichment steps completed, in order of completion
    sumIn, nerIn, vaderIn, \* the text each library was called with
    summary, entities, sentiment, results,
    fsLog,       \* files opened for writing, in order
    errStage     \* stage whose exception ended the run

envVars == <<argv, fileText, stdin, clock, sumyOut, nerOut, vaderOut>>
inputVars == <<lines, stdinPos, text>>
nameVars == <<timestamp, json_name, html_name>>
loadVars == <<loadLog, downloadLog>>
enrichVars == <<done, sumIn, nerIn, vaderIn, summary, entities, sentiment>>
vars == <<envVars, pc, inputVars, nameVars, loadVars, enrichVars, results, fsLog,
          errStage>>

\* An option absent from the command line.
Absent == [given |-> FALSE, val |-> <<>>]
Given(v) == [given |-> TRUE, val |-> v]

\* parse_args: the defaults of lines 75-78.  args.input is None when absent;
\* here None is the empty value, which `if args.input` treats the same way
\* (an explicit empty --input reads standard input too).
args ==
    [input |-> IF argv.input.given THEN argv.input.val ELSE <<>>,
     output |-> IF argv.output.given THEN argv.output.val ELSE <<>>,
     sentences |-> IF argv.sentences.given THEN argv.sentences.val ELSE DefaultSentences,
     no_html |-> argv.no_html]

NoResults == [summary |-> <<>>, entities |-> <<>>,
              sentiment |-> [label |-> "", scores |-> [compound |-> 0]],
              original_text |-> <<>>]

Init ==
    /\ argv \in [input : {Absent, Given(<<>>), Given(InputPath)},
                 output : {Absent, Given(<<>>), Given(OutputName)},
                 sentences : {Absent, [given |-> TRUE, val |-> 1]},
                 no_html : BOOLEAN]
    /\ IF args.input # <<>>
       THEN fileText \in FileContents /\ stdin = <<>>
       ELSE fileText = <<>> /\ stdin \in StdinContents
    /\ clock \in Clock
    /\ sumyOut \in {s \in SummarizerOutputs : Len(s) <= args.sentences}
    /\ nerOut \in EntsOutputs
    /\ vaderOut \in ScoreOutputs
    /\ \/ <<fileText, stdin>> \in FewInputs
       \/ <<sumyOut, nerOut, vaderOut>> = PlainResponses
    /\ pc = "read"
    /\ lines = <<>> /\ stdinPos = 0 /\ text = <<>>
    /\ timestamp = <<>> /\ json_name = <<>> /\ html_name = <<>>
    /\ loadLog = <<>> /\ downloadLog = <<>>
    /\ done = <<>>
    /\ sumIn = <<>> /\ nerIn = <<>> /\ vaderIn = <<>>
    /\ summary = <<>> /\ entities = <<>>
    /\ sentiment = NoResults.sentiment
    /\ results = NoResults
    /\ fsLog = <<>>
    /\ errStage = ""

\* An uncaught exception in `stage`: the run ends there.
Raise(stage) == pc' = "error" /\ errStage' = stage

\* ------------------------------------------------------------ pure functions

\* str(s) of a sumy Sentence.
str(s) == s.text

\* summarize_text without the fallback of line 29.
summarize_text_no_placeholder(summary_sentences) ==
    join(<<32>>, [i \in 1..Len(summary_sentences) |-> str(summary_sentences[i])])

\* summarize_text, given what summarizer(parser.document, sentences_count)
\* returned (lines 28-29).
summarize_text(summary_sentences) ==
    LET joined == join(<<32>>, [i \in 1..Len(summary_sentences) |->
                                     str(summary_sentences[i])])
    IN  IF strip(joined) # <<>> THEN joined ELSE Placeholder

Range(f) == {f[i] : i \in DOMAIN f}

RECURSIVE Dedup(_)
Dedup(q) ==
    IF q = <<>> THEN <<>>
    ELSE LET front == Dedup(SubSeq(q, 1, Len(q) - 1))
         IN  IF q[Len(q)] \in Range(front) THEN front ELSE Append(front, q[Len(q)])

\* extract_entities collecting each distinct entity once.
extract_entities_dedup(ents) ==
    Dedup([i \in 1..Len(ents) |-> [text |-> ents[i].text, label |-> ents[i].label_]])

\* extract_entities, given doc.ents (line 33).
extract_entities(ents) ==
    [i \in 1..Len(ents) |-> [text |-> ents[i].text, label |-> ents[i].label_]]

\* classify_sentiment with exclusive thresholds.
classify_sentiment_strict(scores) ==
    LET compound == scores.compound
        label == IF compound > PosThreshold THEN "positive"
                 ELSE IF compound < NegThreshold THEN "negative"
                 ELSE "neutral"
    IN  [label |-> label, scores |-> scores]

\* classify_sentiment, given analyzer.polarity_scores(text) (lines 37-39).
classify_sentiment(scores) ==
    LET compound == scores.compound
        label == IF compound >= PosThreshold THEN "positive"
                 ELSE IF compound <= NegThreshold THEN "negative"
                 ELSE "neutral"
    IN  [label |-> label, scores |-> scores]

\* json_name that ignores --output.
JsonNameAlwaysStamped(output, ts) == ResultsPrefix \o ts \o JsonSuffix

\* json_name and html_name (lines 95-96).
JsonName(output, ts) ==
    IF output # <<>> THEN output ELSE ResultsPrefix \o ts \o JsonSuffix
HtmlName(ts) == ReportPrefix \o ts \o HtmlSuffix

\* open(path, "w") followed by the write: the file exists once open succeeds,
\* and holds the whole document only if the write succeeds too.
WriteFile(log, path, kind, obj, outcome) ==
    IF outcome = "open_fails" THEN log
    ELSE Append(log, [path |-> path, kind |-> kind, obj |-> obj,
                      complete |-> (outcome = "ok")])

WriteOutcomes == {"ok", "open_fails", "write_fails"}

\* ------------------------------------------------------------ input (82-91)

ReadFile ==
    /\ pc = "read"
    /\ args.input # <<>>
    /\ \/ text' = fileText /\ pc' = "names" /\ UNCHANGED errStage
       \/ Raise("read") /\ UNCHANGED text
    /\ UNCHANGED <<envVars, lines, stdinPos, nameVars, loadVars, enrichVars, results,
                   fsLog>>

\* The print of line 85 raises when standard output cannot be written.
Prompt ==
    /\ pc = "read"
    /\ args.input = <<>>
    /\ \/ pc' = "stdin" /\ lines' = <<>> /\ UNCHANGED errStage
       \/ Raise("prompt") /\ UNCHANGED lines
    /\ UNCHANGED <<envVars, stdinPos, text, nameVars, loadVars, enrichVars, results,
                   fsLog>>

\* The loop stopping only at an empty line (`if not line`).
ReadLineEmptyOnly ==
    /\ pc = "stdin"
    /\ \/ Raise("read") /\ UNCHANGED <<lines, stdinPos, text>>
       \/ /\ stdinPos < Len(stdin)
          /\ LET line == stdin[stdinPos + 1] IN
               /\ stdinPos' = stdinPos + 1
               /\ IF line = <<>>
                  THEN text' = join(<<10>>, lines) /\ pc' = "names" /\ UNCHANGED lines
                  ELSE lines' = Append(lines, line) /\ UNCHANGED <<pc, text>>
          /\ UNCHANGED errStage
    /\ UNCHANGED <<envVars, nameVars, loadVars, enrichVars, results, fsLog>>

\* One iteration of the while loop: input(), the blank test, the append.
\* input() raises without consuming a line at end of input (EOFError), and can
\* do so at any call (RuntimeError when sys.stdout is lost).
ReadLine ==
    /\ pc = "stdin"
    /\ \/ Raise("read") /\ UNCHANGED <<lines, stdinPos, text>>
       \/ /\ stdinPos < Len(stdin)
          /\ LET line == stdin[stdinPos + 1] IN
               /\ stdinPos' = stdinPos + 1
               /\ IF strip(line) = <<>>
                  THEN text' = join(<<10>>, lines) /\ pc' = "names" /\ UNCHANGED lines
                  ELSE lines' = Append(lines, line) /\ UNCHANGED <<pc, text>>
          /\ UNCHANGED errStage
    /\ UNCHANGED <<envVars, nameVars, loadVars, enrichVars, results, fsLog>>

\* ------------------------------------------------------- output names (94-96)

MakeNames ==
    /\ pc = "names"
    /\ LET now == clock IN
         /\ timestamp' = strftime(now)
         /\ json_name' = JsonName(args.output, timestamp')
         /\ html_name' = HtmlName(timestamp')
    /\ pc' = "load"
    /\ UNCHANGED <<envVars, inputVars, loadVars, enrichVars, results, fsLog, errStage>>

\* --------------------------------------------------------- NER model (99-105)

LoadOutcomes == {"ok", "OSError", "other"}

\* The print of line 98, then the load inside the try.
LoadModel ==
    /\ pc = "load"
    /\ \/ Raise("load_msg") /\ UNCHANGED loadLog
       \/ \E r \in LoadOutcomes :
            /\ loadLog' = Append(loadLog, r)
            /\ IF r = "ok" THEN pc' = "analyzer" /\ UNCHANGED errStage
               ELSE IF r = "OSError" THEN pc' = "download" /\ UNCHANGED errStage
               ELSE Raise("load")
    /\ UNCHANGED <<envVars, inputVars, nameVars, downloadLog, enrichVars, results,
                   fsLog>>

\* The except branch: the print of line 102, then the download.
Download ==
    /\ pc = "download"
    /\ \/ Raise("download_msg") /\ UNCHANGED downloadLog
       \/ \E r \in {"ok", "fail"} :
            /\ downloadLog' = Append(downloadLog, r)
            /\ IF r = "ok" THEN pc' = "reload" /\ UNCHANGED errStage
               ELSE Raise("download")
    /\ UNCHANGED <<envVars, inputVars, nameVars, loadLog, enrichVars, results, fsLog>>

\* The second load inside a retry loop: a missing model downloads again.
ReloadRetrying ==
    /\ pc = "reload"
    /\ \E r \in LoadOutcomes :
         /\ loadLog' = Append(loadLog, r)
         /\ IF r = "ok" THEN pc' = "analyzer" /\ UNCHANGED errStage
            ELSE IF r = "OSError" THEN pc' = "download" /\ UNCHANGED errStage
            ELSE Raise("load")
    /\ UNCHANGED <<envVars, inputVars, nameVars, downloadLog, enrichVars, results,
                   fsLog>>

\* The load of line 105, outside the try: any exception ends the run.
Reload ==
    /\ pc = "reload"
    /\ \E r \in LoadOutcomes :
         /\ loadLog' = Append(loadLog, r)
         /\ IF r = "ok" THEN pc' = "analyzer" /\ UNCHANGED errStage
            ELSE Raise("load")
    /\ UNCHANGED <<envVars, inputVars, nameVars, downloadLog, enrichVars, results,
                   fsLog>>

MakeAnalyzer ==
    /\ pc = "analyzer"
    /\ \/ pc' = "enrich" /\ UNCHANGED errStage
       \/ Raise("analyzer")
    /\ UNCHANGED <<envVars, inputVars, nameVars, loadVars, enrichVars, results, fsLog>>

\* -------------------------------------------------------- enrichment (109-116)

\* Each step is the progress print (line 109, 112, 115), which can raise, and
\* then the call.

Steps == {"summarize", "extract", "classify"}
Done == {done[i] : i \in 1..Len(done)}

\* summarize_text normalising the shared text in place.
SummarizeStepInPlace ==
    /\ \/ /\ sumIn' = text
          /\ text' = strip(text)
          /\ summary' = summarize_text(sumyOut)
          /\ done' = Append(done, "summarize")
          /\ UNCHANGED <<pc, errStage>>
       \/ (\E stage \in {"summarize_msg", "summarize"} : Raise(stage))
          /\ UNCHANGED <<sumIn, summary, done, text>>
    /\ UNCHANGED <<envVars, lines, stdinPos, nameVars, loadVars, nerIn, vaderIn,
                   entities, sentiment, results, fsLog>>

SummarizeStep ==
    /\ \/ /\ sumIn' = text
          /\ summary' = summarize_text(sumyOut)
          /\ done' = Append(done, "summarize")
          /\ UNCHANGED <<pc, errStage>>
       \/ (\E stage \in {"summarize_msg", "summarize"} : Raise(stage)) /\ UNCHANGED <<sumIn, summary, done>>
    /\ UNCHANGED <<envVars, inputVars, nameVars, loadVars, nerIn, vaderIn, entities,
                   sentiment, results, fsLog>>

ExtractStep ==
    /\ \/ /\ nerIn' = text
          /\ entities' = extract_entities(nerOut)
          /\ done' = Append(done, "extract")
          /\ UNCHANGED <<pc, errStage>>
       \/ (\E stage \in {"extract_msg", "extract"} : Raise(stage)) /\ UNCHANGED <<nerIn, entities, done>>
    /\ UNCHANGED <<envVars, inputVars, nameVars, loadVars, sumIn, vaderIn, summary,
                   sentiment, results, fsLog>>

\* A failing classification that saves what was computed so far.
ClassifyStepSavingPartial ==
    /\ \/ /\ vaderIn' = text
          /\ sentiment' = classify_sentiment(vaderOut)
          /\ done' = Append(done, "classify")
          /\ UNCHANGED <<pc, errStage, fsLog>>
       \/ /\ \E stage \in {"classify_msg", "classify"} : Raise(stage)
          /\ fsLog' = WriteFile(fsLog, json_name, "json",
                                 [summary |-> summary, entities |-> entities], "ok")
          /\ UNCHANGED <<vaderIn, sentiment, done>>
    /\ UNCHANGED <<envVars, inputVars, nameVars, loadVars, sumIn, nerIn, summary,
                   entities, results>>

ClassifyStep ==
    /\ \/ /\ vaderIn' = text
          /\ sentiment' = classify_sentiment(vaderOut)
          /\ done' = Append(done, "classify")
          /\ UNCHANGED <<pc, errStage>>
       \/ (\E stage \in {"classify_msg", "classify"} : Raise(stage)) /\ UNCHANGED <<vaderIn, sentiment, done>>
    /\ UNCHANGED <<envVars, inputVars, nameVars, loadVars, sumIn, nerIn, summary,
                   entities, results, fsLog>>

\* main runs the three steps in this order.
Summarize == pc = "enrich" /\ done = <<>> /\ SummarizeStep
Extract == pc = "enrich" /\ done = <<"summarize">> /\ ExtractStep
Classify == pc = "enrich" /\ done = <<"summarize", "extract">> /\ ClassifyStep

\* ------------------------------------------------------- aggregation (118-123)

Aggregate ==
    /\ pc = "enrich"
    /\ Done = Steps
    /\ results' = [summary |-> summary, entities |-> entities,
                   sentiment |-> sentiment, original_text |-> strip(text)]
    /\ pc' = "save_json"
    /\ UNCHANGED <<envVars, inputVars, nameVars, loadVars, enrichVars, fsLog, errStage>>

\* ------------------------------------------------------------ output (125-130)

\* save_json, then the print of line 126, which can raise (its message holds
\* U+2705, which an ASCII standard output cannot encode).
SaveJson ==
    /\ pc = "save_json"
    /\ \E r \in WriteOutcomes :
         /\ fsLog' = WriteFile(fsLog, json_name, "json", results, r)
         /\ IF r = "ok"
            THEN \/ pc' = "html" /\ UNCHANGED errStage
                 \/ Raise("json_msg")
            ELSE Raise("save_json")
    /\ UNCHANGED <<envVars, inputVars, nameVars, loadVars, enrichVars, results>>

\* The report written whatever --no-html says.
HtmlReportAlways ==
    /\ pc = "html"
    /\ \E r \in WriteOutcomes :
         /\ fsLog' = WriteFile(fsLog, html_name, "html", results, r)
         /\ IF r = "ok"
            THEN \/ pc' = "done" /\ UNCHANGED errStage
                 \/ Raise("html_msg")
            ELSE Raise("html")
    /\ UNCHANGED <<envVars, inputVars, nameVars, loadVars, enrichVars, results>>

\* `if not args.no_html:` make_html_report(results, html_name), then the print
\* of line 130, which can raise; then main returns.
HtmlReport ==
    /\ pc = "html"
    /\ IF ~args.no_html
       THEN \E r \in WriteOutcomes :
              /\ fsLog' = WriteFile(fsLog, html_name, "html", results, r)
              /\ IF r = "ok"
                 THEN \/ pc' = "done" /\ UNCHANGED errStage
                      \/ Raise("html_msg")
                 ELSE Raise("html")
       ELSE pc' = "done" /\ UNCHANGED <<fsLog, errStage>>
    /\ UNCHANGED <<envVars, inputVars, nameVars, loadVars, enrichVars, results>>

\* ------------------------------------------------------------ specifications

Next ==
    \/ ReadFile \/ Prompt \/ ReadLine
    \/ MakeNames
    \/ LoadModel \/ Download \/ Reload \/ MakeAnalyzer
    \/ Summarize \/ Extract \/ Classify
    \/ Aggregate
    \/ SaveJson \/ HtmlReport

Spec == Init /\ [][Next]_vars

\* The three enrichment steps taken in any order, everything else as in main.
SummarizeAny == pc = "enrich" /\ "summarize" \notin Done /\ SummarizeStep
ExtractAny == pc = "enrich" /\ "extract" \notin Done /\ ExtractStep
ClassifyAny == pc = "enrich" /\ "classify" \notin Done /\ ClassifyStep

NextAnyOrder ==
    \/ ReadFile \/ Prompt \/ ReadLine
    \/ MakeNames
    \/ LoadModel \/ Download \/ Reload \/ MakeAnalyzer
    \/ SummarizeAny \/ ExtractAny \/ ClassifyAny
    \/ Aggregate
    \/ SaveJson \/ HtmlReport

SpecAnyOrder == Init /\ [][NextAnyOrder]_vars

TypeOK ==
    /\ pc \in {"read", "stdin", "names", "load", "download", "reload", "analyzer",
               "enrich", "save_json", "html", "done", "error"}
    /\ Done \subseteq Steps
    /\ (pc = "error") = (errStage # "")

\* ------------------------------------------------------ vocabulary of the claims

\* Unicode white space: the ASCII controls and separators, the space, NEL,
\* the no-break spaces, and the space, line and paragraph separators.
IsSpace(c) ==
    \/ c \in 9..13 \/ c \in 28..32
    \/ c \in {133, 160, 5760}
    \/ c \in 8192..8202
    \/ c \in {8232, 8233, 8239, 8287, 12288}

IsBlank(line) == \A i \in 1..Len(line) : IsSpace(line[i])
HasBlank == \E k \in 1..Len(stdin) : IsBlank(stdin[k])
\* Index of the first empty or whitespace-only line of standard input.
FirstBlank ==
    CHOOSE k \in 1..Len(stdin) :
        IsBlank(stdin[k]) /\ \A j \in 1..(k - 1) : ~IsBlank(stdin[j])

\* Where part i starts in the parts joined with a one-character separator.
RECURSIVE OffsetOf(_, _)
OffsetOf(parts, i) ==
    IF i = 1 THEN 0 ELSE OffsetOf(parts, i - 1) + Len(parts[i - 1]) + 1

\* t is the parts in order, with exactly the character c between neighbours.
IsJoinOf(t, parts, c) ==
    IF parts = <<>> THEN t = <<>>
    ELSE /\ Len(t) = OffsetOf(parts, Len(parts)) + Len(parts[Len(parts)])
         /\ \A i \in 1..Len(parts) :
              /\ \A p \in 1..Len(parts[i]) : t[OffsetOf(parts, i) + p] = parts[i][p]
              /\ i > 1 => t[OffsetOf(parts, i)] = c

\* o is t without its leading and trailing whitespace, and nothing else changed.
IsStripOf(o, t) ==
    \E i \in 0..Len(t) : \E j \in 0..(Len(t) - i) :
        /\ \A p \in 1..i : IsSpace(t[p])
        /\ \A p \in (Len(t) - j + 1)..Len(t) : IsSpace(t[p])
        /\ o = SubSeq(t, i + 1, Len(t) - j)
        /\ o # <<>> => ~IsSpace(o[1]) /\ ~IsSpace(o[Len(o)])

IsDigit(c) == \E d \in 1..10 : Digits[d] = c
DigitVal(c) == (CHOOSE d \in 1..10 : Digits[d] = c) - 1
RECURSIVE Num(_)
Num(ds) == IF ds = <<>> THEN 0 ELSE 10 * Num(SubSeq(ds, 1, Len(ds) - 1)) + DigitVal(ds[Len(ds)])

\* ts is dt written as YYYYMMDD_HHMMSS.
IsStampOf(ts, dt) ==
    /\ Len(ts) = 15
    /\ ts[9] = 95
    /\ \A i \in (1..15) \ {9} : IsDigit(ts[i])
    /\ Num(SubSeq(ts, 1, 4)) = dt.year
    /\ Num(SubSeq(ts, 5, 6)) = dt.month
    /\ Num(SubSeq(ts, 7, 8)) = dt.day
    /\ Num(SubSeq(ts, 10, 11)) = dt.hour
    /\ Num(SubSeq(ts, 12, 13)) = dt.minute
    /\ Num(SubSeq(ts, 14, 15)) = dt.second

TextAcquired == pc \notin {"read", "stdin"} /\ errStage \notin {"read", "prompt"}
NamesMade == TextAcquired /\ pc # "names"
OutputStages == {"save_json", "json_msg", "html", "html_msg"}
ResultsBuilt == pc \in {"save_json", "html", "done"} \/ errStage \in OutputStages

\* The text the run's input holds: the file, or standard input up to its
\* first blank line.
AcquiredText ==
    IF args.input # <<>> THEN fileText
    ELSE join(<<10>>, SubSeq(stdin, 1, FirstBlank - 1))

Written(kind) == \E i \in 1..Len(fsLog) : fsLog[i].kind = kind /\ fsLog[i].complete
Created(kind) == \E i \in 1..Len(fsLog) : fsLog[i].kind = kind

SameEntities(ents, spans) ==
    /\ Len(ents) = Len(spans)
    /\ \A i \in 1..Len(spans) :
         ents[i].text = spans[i].text /\ ents[i].label = spans[i].label_

\* ----------------------------------------------------------------- claims

\* C1 as stated: in every run that ends in an error, neither the JSON file nor
\* the HTML file has been created or written.
C1_NothingWrittenOnError == pc = "error" => fsLog = <<>>

\* C1 amended: a failure before the output stage leaves neither file created.
\* A failed JSON write leaves no HTML file and at most an incomplete JSON file;
\* a failure of the message after it leaves the complete JSON file and no HTML
\* file.  A failed HTML write leaves the complete JSON file and at most an
\* incomplete HTML file; a failure of the message after it leaves both files
\* complete.
C1_WrittenOnErrorByStage ==
    pc = "error" =>
        /\ errStage \notin OutputStages => fsLog = <<>>
        /\ errStage = "save_json" =>
             /\ Len(fsLog) <= 1
             /\ \A i \in 1..Len(fsLog) :
                  fsLog[i].kind = "json" /\ ~fsLog[i].complete
        /\ errStage = "json_msg" =>
             /\ Len(fsLog) = 1
             /\ fsLog[1].kind = "json" /\ fsLog[1].complete
        /\ errStage \in {"html", "html_msg"} =>
             /\ Len(fsLog) \in {1, 2}
             /\ fsLog[1].kind = "json" /\ fsLog[1].complete
             /\ Len(fsLog) = 2 =>
                  /\ fsLog[2].kind = "html"
                  /\ fsLog[2].complete = (errStage = "html_msg")
             /\ errStage = "html_msg" => Len(fsLog) = 2

C1_Witness ==
    pc = "error" /\ errStage = "json_msg" /\ Written("json") /\ ~Created("html")

\* C2: the label is "positive" exactly when compound >= 0.05, "negative"
\* exactly when compound <= -0.05, "neutral" exactly in between, and the scores
\* returned are the analyzer's scores unchanged.
C2_LabelByThresholds ==
    "classify" \in Done =>
        /\ (sentiment.label = "positive") = (vaderOut.compound >= 500)
        /\ (sentiment.label = "negative") = (vaderOut.compound <= -500)
        /\ (sentiment.label = "neutral")
               = (-500 < vaderOut.compound /\ vaderOut.compound < 500)
        /\ sentiment.scores = vaderOut

C2_Witness ==
    "classify" \in Done /\ vaderOut.compound = -500 /\ sentiment.label = "negative"

\* C3: a run that completes has written the JSON file, and has written the
\* HTML file if and only if --no-html was not given; with --no-html no HTML
\* file is created at all.
C3_OutputsOnSuccess ==
    pc = "done" =>
        /\ \E i \in 1..Len(fsLog) :
             fsLog[i].kind = "json" /\ fsLog[i].complete /\ fsLog[i].path = json_name
        /\ Written("html") = ~argv.no_html
        /\ argv.no_html => ~Created("html")

C3_Witness == pc = "done" /\ argv.no_html /\ Written("json") /\ Len(fsLog) = 1

\* C4 as stated: an explicit --output value is the JSON file's name; without
\* one the name is results_<YYYYMMDD_HHMMSS>.json; the HTML name is always
\* report_<YYYYMMDD_HHMMSS>.html.
C4_ExplicitOutputIsName ==
    NamesMade =>
        /\ argv.output.given => json_name = argv.output.val
        /\ ~argv.output.given => json_name = ResultsPrefix \o timestamp \o JsonSuffix
        /\ html_name = ReportPrefix \o timestamp \o HtmlSuffix

\* C4 amended: an explicit non-empty --output value is the JSON file's name;
\* without one, or with an empty one, the name is results_<YYYYMMDD_HHMMSS>.json;
\* the HTML name is always report_<YYYYMMDD_HHMMSS>.html, from the same
\* timestamp; and the files are written under these names.
C4_NonEmptyOutputIsName ==
    NamesMade =>
        /\ IsStampOf(timestamp, clock)
        /\ (argv.output.given /\ argv.output.val # <<>>) => json_name = argv.output.val
        /\ ~(argv.output.given /\ argv.output.val # <<>>)
               => json_name = ResultsPrefix \o timestamp \o JsonSuffix
        /\ html_name = ReportPrefix \o timestamp \o HtmlSuffix
        /\ \A i \in 1..Len(fsLog) :
             fsLog[i].path = IF fsLog[i].kind = "json" THEN json_name ELSE html_name

C4_Witness ==
    /\ pc = "done"
    /\ argv.output.given /\ argv.output.val = OutputName
    /\ \E i \in 1..Len(fsLog) :
         /\ fsLog[i].kind = "json" /\ fsLog[i].path = OutputName
    /\ \E i \in 1..Len(fsLog) :
         /\ fsLog[i].kind = "html"
         /\ fsLog[i].path = ReportPrefix \o timestamp \o HtmlSuffix

\* C5: the download is triggered at most once and only after the first load
\* found the model missing; once the model is found missing the run goes on to
\* the download, and a download that returns is followed by exactly one more
\* load (short of an exception in the download or its progress message, which
\* ends the run); a failure of that second load ends the run; the load is
\* never attempted more than twice.
C5_OneDownloadOneRetry ==
    /\ Len(loadLog) <= 2
    /\ Len(downloadLog) <= 1
    /\ (loadLog # <<>> /\ loadLog[1] = "ok") => Len(loadLog) = 1 /\ downloadLog = <<>>
    /\ (loadLog # <<>> /\ loadLog[1] = "OSError")
           => \/ pc = "download"
              \/ Len(downloadLog) = 1
              \/ pc = "error" /\ errStage = "download_msg"
    /\ downloadLog # <<>> => loadLog[1] = "OSError"
    /\ downloadLog = <<"ok">> => pc = "reload" \/ Len(loadLog) = 2
    /\ downloadLog = <<"fail">> => pc = "error" /\ errStage = "download"
    /\ Len(loadLog) = 2 => downloadLog = <<"ok">>
    /\ (Len(loadLog) = 2 /\ loadLog[2] # "ok") => pc = "error" /\ errStage = "load"
    /\ (Len(loadLog) = 2 /\ loadLog[2] = "ok")
           => errStage \notin {"load", "load_msg", "download", "download_msg"}

C5_Witness == loadLog = <<"OSError", "ok">> /\ downloadLog = <<"ok">> /\ pc = "done"

\* C6: with no input path, the text is exactly the lines of standard input
\* before the first empty or whitespace-only line, in order, joined with
\* newlines; that line and the lines after it are not part of the text.
C6_StdinUpToFirstBlank ==
    (args.input = <<>> /\ TextAcquired) =>
        /\ HasBlank
        /\ stdinPos = FirstBlank
        /\ lines = SubSeq(stdin, 1, FirstBlank - 1)
        /\ IsJoinOf(text, SubSeq(stdin, 1, FirstBlank - 1), 10)

C6_Witness ==
    /\ args.input = <<>> /\ TextAcquired
    /\ Len(lines) = 2
    /\ stdin[3] = <<9, 12, 160>>
    /\ Len(text) = 7

\* C7: with zero summary sentences summarize_text returns exactly
\* "(No clear summary generated.)"; otherwise it returns the sentences in the
\* summarizer's order with single spaces between them.
C7_PlaceholderOrJoined ==
    "summarize" \in Done =>
        IF sumyOut = <<>> THEN summary = Placeholder
        ELSE IsJoinOf(summary, [i \in 1..Len(sumyOut) |-> sumyOut[i].text], 32)

C7_Witness ==
    "summarize" \in Done /\ sumyOut = <<>> /\ summary = Placeholder /\ Len(summary) = 29

\* C8: original_text is the acquired text without its leading and trailing
\* whitespace and otherwise identical, and each of the three enrichment steps
\* was called with the acquired text as read.
C8_OriginalTextStripped ==
    ResultsBuilt =>
        /\ text = AcquiredText
        /\ IsStripOf(results.original_text, text)
        /\ sumIn = text /\ nerIn = text /\ vaderIn = text

C8_Witness ==
    /\ ResultsBuilt
    /\ results.original_text # <<>>
    /\ results.original_text # text
    /\ sumIn = text /\ sumIn # results.original_text

\* C9: extract_entities returns one (text, label) record per entity span, in
\* the model's order and with duplicates kept, and the result record and the
\* record handed to the JSON writer carry that same list.
C9_EntitiesInModelOrder ==
    /\ "extract" \in Done => SameEntities(entities, nerOut)
    /\ ResultsBuilt => SameEntities(results.entities, nerOut)
    /\ \A i \in 1..Len(fsLog) :
         fsLog[i].kind = "json" => SameEntities(fsLog[i].obj.entities, nerOut)

C9_Witness ==
    \E i \in 1..Len(fsLog) :
        /\ fsLog[i].kind = "json"
        /\ Len(fsLog[i].obj.entities) = 3
        /\ fsLog[i].obj.entities[1] = fsLog[i].obj.entities[3]
        /\ fsLog[i].obj.entities[1].text = SpanA.text
        /\ fsLog[i].obj.entities[2].text = SpanB.text

\* The record main builds running summarize, extract, classify in that order.
SequentialResults ==
    [summary |-> summarize_text(sumyOut),
     entities |-> extract_entities(nerOut),
     sentiment |-> classify_sentiment(vaderOut),
     original_text |-> strip(AcquiredText)]

\* C10: in whatever order the three enrichment steps run, each is called with
\* the unmodified acquired text, each leaves the others' fields alone, and the
\* result record is the one the order summarize, extract, classify produces.
C10_AnyOrderSameResults ==
    /\ \A i \in 1..Len(done) :
         /\ done[i] = "summarize" => sumIn = AcquiredText /\ summary = SequentialResults.summary
         /\ done[i] = "extract" => nerIn = AcquiredText /\ entities = SequentialResults.entities
         /\ done[i] = "classify"
                => vaderIn = AcquiredText /\ sentiment = SequentialResults.sentiment
    /\ (pc = "enrich" /\ "summarize" \notin Done) => summary = <<>>
    /\ (pc = "enrich" /\ "extract" \notin Done) => entities = <<>>
    /\ pc = "enrich" => text = AcquiredText
    /\ ResultsBuilt => results = SequentialResults

C10_Witness ==
    /\ pc = "done"
    /\ done = <<"classify", "extract", "summarize">>
    /\ Len(nerOut) = 3 /\ Len(sumyOut) = 3 /\ vaderOut.compound = 500
    /\ results = SequentialResults

====
